---- MODULE Spec2Model ----
(***************************************************************************)
(* The GRBL device-control layer of cnc_video (src/grbl.py): streaming of  *)
(* gcode lines with receive-buffer accounting (GrblDevice.writeGcodes),    *)
(* the queued send (SerialDevice.sendLine / getResponse), the realtime     *)
(* commands, the construction of the device (GrblDevice.__init__), the     *)
(* settings (getSettings, _parseGrblSettings), sendDollarCmd, and the      *)
(* firmware at the other end of the serial link.                           *)
(***************************************************************************)
EXTENDS Integers, Sequences, FiniteSets, TLC

(***************************************************************************)
(* Bounds of the model.                                                    *)
(***************************************************************************)
MaxLines == 2      \* longest gcode program streamed
MaxInfo == 2       \* unsolicited lines the firmware may emit
MaxRt == 1         \* realtime commands issued by the other caller
MaxLogged == 1     \* a read may time out while fewer records than this are logged
MaxStartup == 2    \* longest list of startup lines configured
MaxOps == 1        \* calls made on the constructed device
MaxBurst == 2      \* response lines the firmware writes during one gatherResponses
MaxText == 4       \* longest command line given to sendLineRaw
MaxTimeout == 2    \* longest timeout given to gatherResponses, in units of time

(***************************************************************************)
(* Program constants.                                                      *)
(***************************************************************************)
GRBL_RX_BUFFER_SIZE == 128

RT_CYCLE_START == <<"~">>
RT_FEED_HOLD == <<"!">>
RT_CURRENT_STATUS == <<"?">>
\* a Python 2 byte-string literal has no \u escape: six characters
RT_RESET_GRBL == <<"\\", "u", "0", "0", "0", "3">>

REALTIME_CMDS == {RT_CYCLE_START, RT_FEED_HOLD, RT_CURRENT_STATUS, RT_RESET_GRBL}

(***************************************************************************)
(* Text: a string is a sequence of one-character strings.                  *)
(***************************************************************************)
Rep(c, n) == [k \in 1..n |-> c]

IsSpace(c) == c \in {" ", "\t", "\r", "\n"}

RECURSIVE LStrip(_)
LStrip(s) == IF s # <<>> /\ IsSpace(Head(s)) THEN LStrip(Tail(s)) ELSE s

RECURSIVE RStrip(_)
RStrip(s) ==
    IF s # <<>> /\ IsSpace(s[Len(s)]) THEN RStrip(SubSeq(s, 1, Len(s) - 1)) ELSE s

\* str.strip()
Strip(s) == RStrip(LStrip(s))

SetMin(S) == CHOOSE x \in S : \A y \in S : x <= y

\* str.find(sub): index of the first occurrence (from 0), -1 when there is none
Find(s, sub) ==
    LET hits == {k \in 0..(Len(s) - Len(sub)) : SubSeq(s, k + 1, k + Len(sub)) = sub}
    IN  IF hits = {} THEN -1 ELSE SetMin(hits)

\* str.startswith(prefix)
StartsWith(s, prefix) ==
    Len(s) >= Len(prefix) /\ SubSeq(s, 1, Len(prefix)) = prefix

RECURSIVE Sum(_)
Sum(lens) == IF lens = <<>> THEN 0 ELSE Head(lens) + Sum(Tail(lens))

TXT_OK == <<"o", "k">>
TXT_ERROR == <<"e", "r", "r", "o", "r">>

(***************************************************************************)
(* The configuration an XCarve is made from (xcarve.py): a dict with the    *)
(* dict "cnc", which names the serial device.                               *)
(***************************************************************************)
\* a configuration that names the device
DefaultConfig == [cnc |-> [device |-> "/dev/ttyACM0"]]

\* a configuration whose "cnc" has no entry "device"
NoDeviceConfig == [cnc |-> <<>>]

Configs == {DefaultConfig, NoDeviceConfig}

(***************************************************************************)
(* Inputs: the gcode lines a program is made of, as read from a file, and  *)
(* the lines the firmware writes back.                                     *)
(***************************************************************************)
GcodeKinds == 1..3

GcodeText(k) ==
    CASE k = 1 -> <<" ", "G", "1", " ", "X", "1", "0", "0", "\n">>
      [] k = 2 -> <<"G">> \o Rep("1", 61) \o <<"\n">>
      [] k = 3 -> <<"G">> \o Rep("1", 62) \o <<"\n">>

Terminals == {"ok", "error"}
Unsolicited == {"info", "infok"}
RespKinds == Terminals \cup Unsolicited \cup {"status", "timeout"}

\* what serial.readline() returns for each kind of firmware line
RespText(kind) ==
    CASE kind = "ok" -> <<"o", "k", "\r", "\n">>
      [] kind = "error" -> <<"e", "r", "r", "o", "r", ":", "2", "\r", "\n">>
      [] kind = "status" -> <<"<", "I", "d", "l", "e", ">", "\r", "\n">>
      [] kind = "info" -> <<"[", "E", "n", "a", "b", "l", "e", "d", "]", "\r", "\n">>
      [] kind = "infok" -> <<">", "G", "2", "1", ":", "o", "k", "\r", "\n">>
      [] kind = "timeout" -> <<>>
      [] kind = "blank" -> <<"\r", "\n">>
      [] kind = "banner" -> <<"G", "r", "b", "l", " ", "1", ".", "0", "c", "\r", "\n">>
      [] kind = "caution" -> <<"[", "U", "n", "l", "o", "c", "k", "e", "d", "]", "\r", "\n">>

\* all programs of at most MaxLines lines
Programs == UNION {[1..n -> GcodeKinds] : n \in 0..MaxLines}

\* the programs of long lines, which fill the receive buffer
LongPrograms == UNION {[1..n -> {2, 3}] : n \in 1..MaxLines}


(***************************************************************************)
(* The settings table and the decoding of the "$n=v" lines                 *)
(* (GRBL_SETTINGS, GrblDevice._parseGrblSettings).                         *)
(***************************************************************************)
\* the keys of GRBL_SETTINGS
SettingIds ==
    {0, 1, 2, 3, 4, 5, 6, 10, 11, 12, 13, 20, 21, 22, 23, 24, 25, 26, 27, 30, 31,
     100, 101, 102, 110, 111, 112, 120, 121, 122, 130, 131, 132}

\* GRBL_SETTINGS[num][GS_TYPE]
GS_TYPE(num) ==
    CASE num = 0 -> "int"
      [] num = 1 -> "int"
      [] num = 2 -> "int"
      [] num = 3 -> "int"
      [] num = 4 -> "bool"
      [] num = 5 -> "bool"
      [] num = 6 -> "bool"
      [] num = 10 -> "int"
      [] num = 11 -> "float"
      [] num = 12 -> "float"
      [] num = 13 -> "bool"
      [] num = 20 -> "bool"
      [] num = 21 -> "bool"
      [] num = 22 -> "bool"
      [] num = 23 -> "int"
      [] num = 24 -> "float"
      [] num = 25 -> "float"
      [] num = 26 -> "int"
      [] num = 27 -> "float"
      [] num = 30 -> "float"
      [] num = 31 -> "float"
      [] num = 100 -> "float"
      [] num = 101 -> "float"
      [] num = 102 -> "float"
      [] num = 110 -> "float"
      [] num = 111 -> "float"
      [] num = 112 -> "float"
      [] num = 120 -> "float"
      [] num = 121 -> "float"
      [] num = 122 -> "float"
      [] num = 130 -> "float"
      [] num = 131 -> "float"
      [] num = 132 -> "float"

Digits == <<"0", "1", "2", "3", "4", "5", "6", "7", "8", "9">>

IsDigit(c) == \E d \in 1..10 : Digits[d] = c

DigitValue(c) == (CHOOSE d \in 1..10 : Digits[d] = c) - 1

\* the number a string of digits denotes
RECURSIVE DigitsValue(_)
DigitsValue(s) ==
    IF s = <<>> THEN 0
    ELSE 10 * DigitsValue(SubSeq(s, 1, Len(s) - 1)) + DigitValue(s[Len(s)])

AllDigits(s) == \A k \in DOMAIN s : IsDigit(s[k])

\* the digits of a natural number
RECURSIVE DigitsOf(_)
DigitsOf(n) ==
    IF n < 10 THEN <<Digits[n + 1]>>
    ELSE DigitsOf(n \div 10) \o <<Digits[(n % 10) + 1]>>

\* a value of a setting: n / 10^e; a bool is 1 or 0, an int has e = 0
Value(k, n, e) == [k |-> k, n |-> n, e |-> e]

\* the conversion raised ValueError
ValueError == Value("ValueError", 0, 0)

\* a decimal with its trailing zeros dropped, so that equal floats are equal
RECURSIVE Normal(_, _)
Normal(n, e) ==
    IF e > 0 /\ n % 10 = 0 THEN Normal(n \div 10, e - 1) ELSE Value("float", n, e)

Unsigned(s) == IF s # <<>> /\ Head(s) \in {"+", "-"} THEN Tail(s) ELSE s

Signed(s, n) == IF s # <<>> /\ Head(s) = "-" THEN 0 - n ELSE n

\* int(token)
ToInt(token) ==
    LET u == Unsigned(token)
    IN  IF u # <<>> /\ AllDigits(u) THEN Value("int", Signed(token, DigitsValue(u)), 0)
        ELSE ValueError

\* float(token), for the decimal tokens a settings line holds
ToFloat(token) ==
    LET u == Unsigned(token)
        dots == {k \in DOMAIN u : u[k] = "."}
        dot == IF dots = {} THEN Len(u) + 1 ELSE SetMin(dots)
        whole == SubSeq(u, 1, dot - 1)
        frac == SubSeq(u, dot + 1, Len(u))
    IN  IF Cardinality(dots) <= 1 /\ AllDigits(whole) /\ AllDigits(frac)
           /\ Len(whole) + Len(frac) > 0
        THEN Normal(Signed(token, DigitsValue(whole \o frac)), Len(frac))
        ELSE ValueError

\* bool(token): every string but the empty one is true
ToBool(token) == Value("bool", IF token = <<>> THEN 0 ELSE 1, 0)

\* typ(m.group(2))
TypeCast(typ, token) ==
    CASE typ = "int" -> ToInt(token)
      [] typ = "float" -> ToFloat(token)
      [] typ = "bool" -> ToBool(token)

\* re.compile("^\$([0-9]+)=([^ ]*) .*$").match(line): the two groups, or None
NoMatch == [num |-> <<>>, token |-> <<>>, matched |-> FALSE]

PatternMatch(line) ==
    LET eqs == {k \in DOMAIN line : line[k] = "="}
        eq == IF eqs = {} THEN 0 ELSE SetMin(eqs)
        spaces == {k \in DOMAIN line : k > eq /\ line[k] = " "}
    IN  IF /\ line # <<>>
           /\ Head(line) = "$"
           /\ eq > 2
           /\ AllDigits(SubSeq(line, 2, eq - 1))
           /\ spaces # {}
        THEN [num |-> SubSeq(line, 2, eq - 1),
              token |-> SubSeq(line, eq + 1, SetMin(spaces) - 1),
              matched |-> TRUE]
        ELSE NoMatch

\* a dict with no key
EmptyMap == [n \in {} |-> ValueError]

\* self.settings before getSettings has assigned it
NoSettings == [state |-> "unset", map |-> EmptyMap]

\* the one element of a set of one
The(S) == CHOOSE x \in S : TRUE

\* m = pattern.match(line), for each line of the for loop, with the line's place
Matches(lines) ==
    {[at |-> k, m |-> The({PatternMatch(line) : line \in {lines[k]}})] : k \in DOMAIN lines}

\* num, typ and val of a line the pattern matches: GRBL_SETTINGS[num] raises
\* KeyError on an unknown num, typ(m.group(2)) may raise ValueError
ParsedRow(p) ==
    LET num == DigitsValue(p.m.num)
    IN  [at |-> p.at, num |-> num, known |-> num \in SettingIds,
         val |-> IF num \in SettingIds THEN TypeCast(GS_TYPE(num), p.m.token)
                 ELSE ValueError]

\* if m: the lines the pattern does not match are passed over
ParsedRows(lines) == {ParsedRow(p) : p \in {q \in Matches(lines) : q.m.matched}}

\* the rows at which the loop raises
Raising(rows) == {r \in rows : ~r.known \/ r.val = ValueError}

\* the rows the loop has stored when it ends or raises
Stored(rows) ==
    The({{r \in rows : \A x \in raising : r.at < x.at} : raising \in {Raising(rows)}})

\* the exception of the first row that raises
Exception(rows) ==
    The({IF raising = {} THEN "none"
         ELSE The({IF r.known THEN "ValueError" ELSE "KeyError" :
                   r \in {x \in raising : \A y \in raising : x.at <= y.at}}) :
         raising \in {Raising(rows)}})

\* settings[num] = val: a later row of a num replaces the earlier one
Dict(rows) ==
    The({[n \in {r.num : r \in stored} |->
             The({r.val : r \in {x \in stored :
                                   x.num = n /\ \A y \in stored : y.num = n => y.at <= x.at}})] :
         stored \in {Stored(rows)}})

\* the for loop of _parseGrblSettings: the dict built, or the exception raised
ParseLines(lines) ==
    The({[exc |-> Exception(rows), map |-> Dict(rows)] : rows \in {ParsedRows(lines)}})

\* _parseGrblSettings(lines): None, a dict, or an exception
ParseGrblSettings(lines) ==
    IF lines = <<>> THEN [exc |-> "none", state |-> "None", map |-> EmptyMap]
    ELSE The({[exc |-> r.exc, state |-> "dict", map |-> r.map] : r \in {ParseLines(lines)}})

(***************************************************************************)
(* The lines of a settings dump, as the firmware prints them.              *)
(***************************************************************************)
\* GRBL_SETTINGS[num][GS_DEFAULT], as the firmware prints it
DefaultToken(num) ==
    CASE num = 0 -> <<"1", "0">>
      [] num = 1 -> <<"2", "5">>
      [] num = 2 -> <<"0">>
      [] num = 3 -> <<"6">>
      [] num = 4 -> <<"0">>
      [] num = 5 -> <<"0">>
      [] num = 6 -> <<"0">>
      [] num = 10 -> <<"3">>
      [] num = 11 -> <<"0", ".", "0", "2", "0">>
      [] num = 12 -> <<"0", ".", "0", "0", "2">>
      [] num = 13 -> <<"0">>
      [] num = 20 -> <<"0">>
      [] num = 21 -> <<"0">>
      [] num = 22 -> <<"0">>
      [] num = 23 -> <<"1">>
      [] num = 24 -> <<"5", "0", ".", "0", "0", "0">>
      [] num = 25 -> <<"6", "3", "5", ".", "0", "0", "0">>
      [] num = 26 -> <<"2", "5", "0">>
      [] num = 27 -> <<"1", ".", "0", "0", "0">>
      [] num = 30 -> <<"1", ".", "0", "0", "0">>
      [] num = 31 -> <<"0", ".", "0", "0", "0">>
      [] num = 100 -> <<"3", "1", "4", ".", "9", "6", "1">>
      [] num = 101 -> <<"3", "1", "4", ".", "9", "6", "1">>
      [] num = 102 -> <<"3", "1", "4", ".", "9", "6", "1">>
      [] num = 110 -> <<"6", "3", "5", ".", "0", "0", "0">>
      [] num = 111 -> <<"6", "3", "5", ".", "0", "0", "0">>
      [] num = 112 -> <<"6", "3", "5", ".", "0", "0", "0">>
      [] num = 120 -> <<"5", "0", ".", "0", "0", "0">>
      [] num = 121 -> <<"5", "0", ".", "0", "0", "0">>
      [] num = 122 -> <<"5", "0", ".", "0", "0", "0">>
      [] num = 130 -> <<"2", "2", "5", ".", "0", "0", "0">>
      [] num = 131 -> <<"1", "2", "5", ".", "0", "0", "0">>
      [] num = 132 -> <<"1", "7", "0", ".", "0", "0", "0">>

\* the text that follows the value on a settings line
Trailing == <<" ", "(", "m", "m", ")">>

Row(num, token, trailing) ==
    <<"$">> \o DigitsOf(num) \o <<"=">> \o token \o trailing \o <<"\r", "\n">>

RowKinds == {"row", "rowTrue", "rowText", "rowBare", "rowOther"}

\* what serial.readline() returns for a received line m
LineText(m) ==
    CASE m.kind = "row" -> Row(m.for, DefaultToken(m.for), Trailing)
      [] m.kind = "rowTrue" -> Row(m.for, <<"1">>, Trailing)
      [] m.kind = "rowText" -> Row(m.for, <<"a", "b", "c">>, Trailing)
      [] m.kind = "rowBare" -> Row(m.for, DefaultToken(m.for), <<>>)
      [] m.kind = "rowOther" -> Row(m.for, <<"2", "5", "0", ".", "5">>, Trailing)
      [] OTHER -> RespText(m.kind)

\* the keys of GRBL_SETTINGS in the order the firmware prints them
SettingOrder ==
    <<0, 1, 2, 3, 4, 5, 6, 10, 11, 12, 13, 20, 21, 22, 23, 24, 25, 26, 27, 30, 31,
      100, 101, 102, 110, 111, 112, 120, 121, 122, 130, 131, 132>>

Line(kind, num) == [kind |-> kind, for |-> num]

OkLine == Line("ok", 0)

\* every setting of the table, then ok
DumpComplete == [k \in DOMAIN SettingOrder |-> Line("row", SettingOrder[k])] \o <<OkLine>>

\* the dump of a firmware that lacks the last setting
DumpMissing ==
    [k \in 1..(Len(SettingOrder) - 1) |-> Line("row", SettingOrder[k])] \o <<OkLine>>

\* the complete dump, its last line without text after the value
DumpBare ==
    [k \in 1..(Len(SettingOrder) - 1) |-> Line("row", SettingOrder[k])]
        \o <<Line("rowBare", SettingOrder[Len(SettingOrder)]), OkLine>>

\* three settings, two of them with other values than the defaults
DumpShort == <<Line("row", 0), Line("rowTrue", 4), Line("rowOther", 100), OkLine>>

\* a setting the table does not have
DumpUnknown == <<Line("row", 0), Line("rowTrue", 200), OkLine>>

\* values that are no numbers
DumpBadInt == <<Line("rowText", 0), OkLine>>
DumpBadBool == <<Line("rowText", 4), OkLine>>

\* what the firmware may answer to $$; the empty answer is silence
Dumps ==
    {DumpComplete, DumpMissing, DumpBare, DumpShort, DumpUnknown, DumpBadInt,
     DumpBadBool, <<OkLine>>, <<Line("error", 0)>>, <<>>}

\* what the firmware may answer when $$ is sent again
Requeried == {DumpShort, DumpUnknown, <<OkLine>>, <<>>}

\* what the firmware may answer to a command line
AckScripts == {<<>>, <<OkLine>>, <<Line("error", 0)>>, <<Line("caution", 0), OkLine>>}

\* what the firmware may write when woken or reset
BootScripts == {<<>>, <<Line("blank", 0), Line("banner", 0)>>}

\* the text of each line of a list of received lines, as getResponse returns it
Texts(lines) == [k \in DOMAIN lines |-> Strip(LineText(lines[k]))]

\* the snapshot of a device whose firmware printed the three settings of
\* DumpShort: the constructor accepts every dump that has a row
ShortSettings ==
    [state |-> "dict", map |-> ParseGrblSettings(Texts(SubSeq(DumpShort, 1, 3))).map]

VARIABLES
    gcodes,       \* writeGcodes: the program, one line kind per line
    pc,           \* writeGcodes: "for", "while", "sleep", "done", "raised"
    i,            \* writeGcodes: number of the line of the current iteration
    lineLengths,  \* writeGcodes: byte lengths of the lines not yet retired
    lineOwner,    \* (history) the line each entry of lineLengths was added for
    responses,    \* writeGcodes: the responses collected
    retired,      \* (history) every retirement: the entry removed and the response
    logged,       \* number of "Unknown GRBL response" records
    wire,         \* everything written to the serial port, in order
    rxq,          \* response lines received and not yet read
    fwRx,         \* firmware: lines received and not yet answered
    fwStatus,     \* firmware: status reports requested and not yet written
    infoSent,     \* firmware: unsolicited lines written
    rtpc,         \* realtime caller: "idle", "sleep", "gather"
    rtCount,      \* realtime commands issued
    rtResp,       \* what the last realtime command returned
    rtAt,         \* (history) whether writeGcodes was waiting when it was issued
    ipc,          \* GrblDevice: where __init__ or the current call stands
    ready,        \* GrblDevice: __init__ has returned
    startupCmds,  \* GrblDevice.__init__: the startup lines configured
    sent,         \* __init__: number of startup lines sent
    resps,        \* the response lines the current call has collected
    ret,          \* the value the last call returned: its lines, or None
    settings,     \* self.settings
    prev,         \* (history) self.settings before it was last assigned
    parsed,       \* (history) the lines last given to _parseGrblSettings
    fault,        \* the exception that ended __init__ or a call, and where
    call,         \* the call made on the constructed device, and its argument
    ops,          \* number of calls made on the constructed device
    fwOut,        \* firmware: responses it has still to write, burst by burst
    lpc,          \* gatherResponses: "idle", "loop" (or "poll", "test"), "done"
    out,          \* getResponse: the bytes accumulated for the line being read
    taken,        \* (history) the bytes readline has returned during the call
    alarms,       \* the Alarm threads started, one for each waitForResponse
    silent,       \* (history) time the current wait has passed with no line come
    config        \* XCarve.__init__: the configuration given

vars == <<gcodes, pc, i, lineLengths, lineOwner, responses, retired, logged,
          wire, rxq, fwRx, fwStatus, infoSent, rtpc, rtCount, rtResp,
          rtAt, ipc, ready, startupCmds, sent, resps, ret, settings, prev,
          parsed, fault, call, ops, fwOut, lpc, out, taken, alarms, silent,
          config>>

session == <<ipc, ready, startupCmds, sent, resps, ret, settings, prev, parsed,
             fault, call, ops, fwOut>>

stream == <<gcodes, pc, i, lineLengths, lineOwner, responses, retired, logged>>
firmware == <<fwRx, fwStatus, infoSent>>
realtime == <<rtpc, rtCount, rtResp, rtAt>>
link == <<lpc, out, taken>>
timer == <<alarms, silent>>

InitWith(programs) ==
    /\ gcodes \in programs
    /\ pc = "for"
    /\ i = 0
    /\ lineLengths = <<>>
    /\ lineOwner = <<>>
    /\ responses = <<>>
    /\ retired = <<>>
    /\ logged = 0
    /\ wire = <<>>
    /\ rxq = <<>>
    /\ fwRx = <<>>
    /\ fwStatus = 0
    /\ infoSent = 0
    /\ rtpc = "idle"
    /\ rtCount = 0
    /\ rtResp = <<>>
    /\ rtAt = "none"
    /\ ipc = "ready"
    /\ ready = TRUE
    /\ startupCmds = <<>>
    /\ sent = 0
    /\ resps = <<>>
    /\ ret = [isNone |-> FALSE, lines |-> <<>>]
    /\ settings = ShortSettings
    /\ prev = NoSettings
    /\ parsed = <<>>
    /\ fault = [exc |-> "none", at |-> "none"]
    /\ call = [op |-> "none", cmd |-> "none"]
    /\ ops = 0
    /\ fwOut = <<>>
    /\ lpc = "idle"
    /\ out = <<>>
    /\ taken = <<>>
    /\ alarms = <<>>
    /\ silent = 0
    /\ config = DefaultConfig

Init == InitWith(Programs)

(***************************************************************************)
(* SerialDevice                                                            *)
(***************************************************************************)
\* self.dev.inWaiting()
InWaiting == Len(rxq)

\* what a call returned: None, or a value made of response lines
ReturnNone == [isNone |-> TRUE, lines |-> <<>>]
Returned(lines) == [isNone |-> FALSE, lines |-> lines]

\* getResponse() returning the line that came last
GetResponseValue_Last ==
    IF InWaiting > 0 THEN Returned(<<rxq[Len(rxq)]>>) ELSE ReturnNone

\* getResponse() returning "" when no line is waiting
GetResponseValue_Empty ==
    IF InWaiting > 0 THEN Returned(<<Head(rxq)>>) ELSE Returned(<<>>)

\* getResponse(): the first line waiting, or None
GetResponseValue == IF InWaiting > 0 THEN Returned(<<Head(rxq)>>) ELSE ReturnNone

\* sendLineRaw: the bytes written for a line
SendLineRawBytes(line) == Strip(line) \o <<"\n">>

\* the line numbers of the gcode lines on the wire, in order
RECURSIVE WireLines(_)
WireLines(w) ==
    IF w = <<>> THEN <<>>
    ELSE IF Head(w).t = "line" THEN <<Head(w).v>> \o WireLines(Tail(w))
    ELSE WireLines(Tail(w))

(***************************************************************************)
(* GrblDevice.writeGcodes                                                  *)
(***************************************************************************)
\* the length recorded for a line as it was read, not stripped
ByteLength_Unstripped(line) == Len(line) + 1

\* the length recorded for a line: len(line.strip()) + 1
ByteLength(line) == Len(Strip(line)) + 1

\* the backpressure test, waiting only once the capacity is exceeded
MustWait_Late(lens) == Sum(lens) > GRBL_RX_BUFFER_SIZE

\* first half of the while condition: the backpressure test
MustWait(lens) == Sum(lens) >= GRBL_RX_BUFFER_SIZE - 1

\* the classification, looking for "ok" alone
IsUnknown_OkOnly(resp) == Find(resp, TXT_OK) < 0

\* the classification, taking every line that is not empty for a response
IsUnknown_EmptyOnly(resp) == resp = <<>>

\* the if of the loop body: neither "ok" nor "error" found in the response
IsUnknown(resp) == Find(resp, TXT_OK) < 0 /\ Find(resp, TXT_ERROR) < 0

\* del lineLengths[0]
Retire(lens) == Tail(lens)

\* for line in gcodes: line = line.strip(); lineLengths.append(len(line) + 1)
NextLine ==
    /\ pc = "for"
    /\ i < Len(gcodes)
    /\ i' = i + 1
    /\ lineLengths' = Append(lineLengths, ByteLength(GcodeText(gcodes[i + 1])))
    /\ lineOwner' = Append(lineOwner, i + 1)
    /\ pc' = "while"
    /\ UNCHANGED <<gcodes, responses, retired, logged, wire, rxq>>
    /\ UNCHANGED <<firmware, realtime>>
    /\ UNCHANGED <<session, link, timer, config>>

\* the body of the while loop: read a line (or time out), classify it, retire
DrainRead ==
    /\ pc = "while"
    /\ MustWait(lineLengths) \/ InWaiting > 0
    /\ InWaiting = 0 => logged < MaxLogged
    /\ LET m == IF InWaiting > 0 THEN Head(rxq) ELSE [kind |-> "timeout", for |-> 0]
           resp == Strip(RespText(m.kind))
       IN  /\ rxq' = IF InWaiting > 0 THEN Tail(rxq) ELSE rxq
           /\ IF IsUnknown(resp)
              THEN /\ logged' = logged + 1
                   /\ UNCHANGED <<pc, lineLengths, lineOwner, responses, retired>>
              ELSE /\ responses' = Append(responses,
                                          [kind |-> m.kind, for |-> m.for, at |-> i,
                                           by |-> "drain"])
                   /\ IF lineLengths = <<>>
                      THEN \* IndexError: writeGcodes is left by the exception
                           /\ pc' = "raised"
                           /\ UNCHANGED <<lineLengths, lineOwner, retired>>
                      ELSE /\ lineLengths' = Retire(lineLengths)
                           /\ lineOwner' = Tail(lineOwner)
                           /\ retired' = Append(retired,
                                  [entry |-> Head(lineOwner), for |-> m.for,
                                   kind |-> m.kind])
                           /\ pc' = pc
                   /\ UNCHANGED logged
    /\ UNCHANGED <<gcodes, i, wire>>
    /\ UNCHANGED <<firmware, realtime>>
    /\ UNCHANGED <<session, link, timer, config>>

\* the loop is left; sendLine: sendLineRaw(line)
SendLineRaw ==
    /\ pc = "while"
    /\ ~(MustWait(lineLengths) \/ InWaiting > 0)
    /\ wire' = Append(wire, [t |-> "line", v |-> i])
    /\ fwRx' = Append(fwRx, i)
    /\ pc' = "sleep"
    /\ UNCHANGED <<gcodes, i, lineLengths, lineOwner, responses, retired, logged,
                   rxq, fwStatus, infoSent>>
    /\ UNCHANGED realtime
    /\ UNCHANGED <<session, link, timer, config>>

\* sendLine after the delay: getResponse(); then responses.append(resp)
GetResponse ==
    /\ pc = "sleep"
    /\ IF InWaiting > 0
       THEN /\ responses' = Append(responses,
                                   [kind |-> Head(rxq).kind, for |-> Head(rxq).for,
                                    at |-> i, by |-> "sendLine"])
            /\ rxq' = Tail(rxq)
       ELSE /\ responses' = Append(responses,
                                   [kind |-> "None", for |-> 0, at |-> i,
                                    by |-> "sendLine"])
            /\ rxq' = rxq
    /\ pc' = "for"
    /\ UNCHANGED <<gcodes, i, lineLengths, lineOwner, retired, logged, wire>>
    /\ UNCHANGED <<firmware, realtime>>
    /\ UNCHANGED <<session, link, timer, config>>

\* the for loop is exhausted: writeGcodes returns
Return ==
    /\ pc = "for"
    /\ i = Len(gcodes)
    /\ pc' = "done"
    /\ UNCHANGED <<gcodes, i, lineLengths, lineOwner, responses, retired, logged,
                   wire, rxq>>
    /\ UNCHANGED <<firmware, realtime>>
    /\ UNCHANGED <<session, link, timer, config>>

(***************************************************************************)
(* The firmware: one terminal response per line received, in order; it may *)
(* also write unsolicited lines, and answers a status query.               *)
(***************************************************************************)
FwAck(k) ==
    /\ fwRx # <<>>
    /\ rxq' = Append(rxq, [kind |-> k, for |-> Head(fwRx)])
    /\ fwRx' = Tail(fwRx)
    /\ UNCHANGED <<stream, wire, fwStatus, infoSent, realtime>>
    /\ UNCHANGED <<session, link, timer, config>>

FwInfo(k) ==
    /\ infoSent < MaxInfo
    /\ infoSent' = infoSent + 1
    /\ rxq' = Append(rxq, [kind |-> k, for |-> 0])
    /\ UNCHANGED <<stream, wire, fwRx, fwStatus, realtime>>
    /\ UNCHANGED <<session, link, timer, config>>

FwStatus ==
    /\ fwStatus > 0
    /\ fwStatus' = fwStatus - 1
    /\ rxq' = Append(rxq, [kind |-> "status", for |-> 0])
    /\ UNCHANGED <<stream, wire, fwRx, infoSent, realtime>>
    /\ UNCHANGED <<session, link, timer, config>>

(***************************************************************************)
(* Realtime commands: getCurrentStatus, cycleStart, feedHold, resetGrbl,   *)
(* called by another thread of the application while writeGcodes runs.     *)
(***************************************************************************)
\* the realtime byte held back instead of written
WriteRealtime_Deferred(w, c) == w

\* self.dev.write(RT_...); self.dev.flush()
WriteRealtime(w, c) == Append(w, [t |-> "rt", v |-> c])

RtSend(c) ==
    /\ rtpc = "idle"
    /\ rtCount < MaxRt
    /\ rtCount' = rtCount + 1
    /\ wire' = WriteRealtime(wire, c)
    /\ fwStatus' = IF c = RT_CURRENT_STATUS THEN fwStatus + 1 ELSE fwStatus
    /\ rtpc' = IF c = RT_RESET_GRBL THEN "gather" ELSE "sleep"
    /\ rtResp' = <<>>
    /\ rtAt' = IF pc = "while" /\ MustWait(lineLengths) THEN "waiting" ELSE "running"
    /\ UNCHANGED <<stream, rxq, fwRx, infoSent>>
    /\ UNCHANGED <<session, link, timer, config>>

\* getCurrentStatus, cycleStart, feedHold after the delay: return getResponse()
RtGetResponse ==
    /\ rtpc = "sleep"
    /\ rtResp' = GetResponseValue.lines
    /\ rxq' = IF InWaiting > 0 THEN Tail(rxq) ELSE rxq
    /\ rtpc' = "idle"
    /\ UNCHANGED <<stream, wire, firmware, rtCount, rtAt>>
    /\ UNCHANGED <<session, link, timer, config>>

\* resetGrbl: gatherResponses(1.0) takes every line until the link is silent
RtGatherLine ==
    /\ rtpc = "gather"
    /\ InWaiting > 0
    /\ rtResp' = Append(rtResp, Head(rxq))
    /\ rxq' = Tail(rxq)
    /\ UNCHANGED <<stream, wire, firmware, rtpc, rtCount, rtAt>>
    /\ UNCHANGED <<session, link, timer, config>>

RtGatherDone ==
    /\ rtpc = "gather"
    /\ InWaiting = 0
    /\ rtpc' = "idle"
    /\ UNCHANGED <<stream, wire, rxq, firmware, rtCount, rtResp, rtAt>>
    /\ UNCHANGED <<session, link, timer, config>>

\* writeGcodes, called by the one thread that uses the device
Stream ==
    \/ NextLine
    \/ DrainRead
    \/ SendLineRaw
    \/ GetResponse
    \/ Return

Next ==
    \/ Stream
    \/ \E k \in Terminals : FwAck(k)
    \/ \E k \in Unsolicited : FwInfo(k)

Spec == Init /\ [][Next]_vars

\* writeGcodes with realtime commands issued meanwhile
NextRT ==
    \/ Stream
    \/ \E k \in Terminals : FwAck(k)
    \/ FwStatus
    \/ \E c \in REALTIME_CMDS : RtSend(c)
    \/ RtGetResponse
    \/ RtGatherLine
    \/ RtGatherDone

InitRT == InitWith(LongPrograms)

SpecRT == InitRT /\ [][NextRT]_vars

(***************************************************************************)
(* GrblDevice.__init__ and the calls made on the constructed device:       *)
(* wake, reset, kill alarm, settings query, startup lines; then            *)
(* getSettings and sendDollarCmd.                                          *)
(***************************************************************************)
\* self.dev.write("\r\n\r\n")
WAKE == <<"\r", "\n", "\r", "\n">>

DLR_VIEW_SETTINGS == "$"
DLR_KILL_ALARM == "X"

\* DOLLAR_CMDS.keys()
DOLLAR_CMDS == {"$", "#", "G", "I", "N", "C", "X", "H"}

\* the arguments sendDollarCmd is called with: a command, and one that is none
DollarArgs == {"X", "Z"}

\* the startup lines a device may be configured with
StartupLines == <<<<"$", "H">>, <<"G", "2", "1">>, <<"G", "9", "0">>>>

StartupConfigs == {SubSeq(StartupLines, 1, n) : n \in 0..MaxStartup}

NoFault == [exc |-> "none", at |-> "none"]
NoCall == [op |-> "none", cmd |-> "none"]

\* the lines of an answer, each marked with the write it is the answer to
AnswerTo(script, n) ==
    [k \in DOMAIN script |-> [kind |-> script[k].kind, for |-> script[k].for, to |-> n]]

\* the lines of the answer the firmware still owes
Pending == IF fwOut = <<>> THEN <<>> ELSE Head(fwOut)

\* the firmware receives what was written: it has answered what it received
\* before, and takes note of the answer to write; silence is no answer
Received(script) ==
    /\ rxq' = rxq \o Pending
    /\ fwOut' = IF script = <<>> THEN <<>> ELSE <<AnswerTo(script, Len(wire) + 1)>>

\* sendDollarCmd with its validation removed
ValidDollarCmd_Any(cmd) == TRUE

\* sendDollarCmd: cmd in DOLLAR_CMDS.keys()
ValidDollarCmd(cmd) == cmd \in DOLLAR_CMDS

\* getSettings keeping the settings of the previous dump that the new one lacks
Snapshot_Merged(old, new) ==
    [state |-> new.state,
     map |-> [n \in DOMAIN old.map \cup DOMAIN new.map |->
                 IF n \in DOMAIN new.map THEN new.map[n] ELSE old.map[n]]]

\* self.settings = GrblDevice._parseGrblSettings(resps)
Snapshot(old, new) == [state |-> new.state, map |-> new.map]

\* if r: taken for false whatever r is
Truthy_Never(r) == FALSE

\* if r: the value is neither None nor the empty string
Truthy(r) == ~r.isNone /\ r.lines # <<>> /\ Texts(r.lines)[1] # <<>>

\* the order of the statements of __init__, kill alarm and settings exchanged
NextPhase_Swapped(phase) ==
    CASE phase = "new" -> "wake"
      [] phase = "wake" -> "reset"
      [] phase = "reset" -> "settings"
      [] phase = "settings" -> "killAlarm"
      [] phase = "killAlarm" -> "startup"
      [] phase = "startup" -> "ready"

\* the order of the statements of __init__
NextPhase(phase) ==
    CASE phase = "new" -> "wake"
      [] phase = "wake" -> "reset"
      [] phase = "reset" -> "killAlarm"
      [] phase = "killAlarm" -> "settings"
      [] phase = "settings" -> "startup"
      [] phase = "startup" -> "ready"

\* the exception caught by the application, which goes on to use the object
Raise_Swallowed(exc, at) == ipc' = "ready" /\ fault' = [exc |-> exc, at |-> at]

\* the failed step tried again
Raise_Retried(exc, at) == ipc' = at /\ fault' = [exc |-> exc, at |-> at]

\* raise: the exception leaves __init__ (or the call) and nothing more is done
Raise(exc, at) == ipc' = "failed" /\ fault' = [exc |-> exc, at |-> at]

InitSession ==
    /\ ipc = "config"
    /\ ready = FALSE
    /\ startupCmds \in StartupConfigs
    /\ sent = 0
    /\ resps = <<>>
    /\ ret = ReturnNone
    /\ settings = NoSettings
    /\ prev = NoSettings
    /\ parsed = <<>>
    /\ fault = NoFault
    /\ call = NoCall
    /\ ops = 0
    /\ fwOut = <<>>
    /\ wire = <<>>
    /\ rxq = <<>>
    /\ gcodes = <<>>
    /\ pc = "idle"
    /\ i = 0
    /\ lineLengths = <<>>
    /\ lineOwner = <<>>
    /\ responses = <<>>
    /\ retired = <<>>
    /\ logged = 0
    /\ fwRx = <<>>
    /\ fwStatus = 0
    /\ infoSent = 0
    /\ rtpc = "idle"
    /\ rtCount = 0
    /\ rtResp = <<>>
    /\ rtAt = "none"
    /\ lpc = "idle"
    /\ out = <<>>
    /\ taken = <<>>
    /\ alarms = <<>>
    /\ silent = 0
    /\ config \in Configs

\* the test of XCarve.__init__ left out
HasDevice_Unchecked(cnc) == TRUE

\* 'device' in cnc
HasDevice(cnc) == "device" \in DOMAIN cnc

\* XCarve.__init__(config): without a device named it raises RuntimeError,
\* else it goes on to GrblDevice.__init__ with the device
XCarveInit ==
    /\ ipc = "config"
    /\ IF HasDevice(config.cnc)
       THEN ipc' = "new" /\ fault' = fault
       ELSE Raise("RuntimeError", "config")
    /\ UNCHANGED <<ready, startupCmds, sent, resps, ret, settings, prev, parsed,
                   call, ops, fwOut, wire, rxq>>
    /\ UNCHANGED <<stream, firmware, realtime, link, timer, config>>

\* SerialDevice.__init__: serial.Serial(...) opens the port or raises
Open(opened) ==
    /\ ipc = "new"
    /\ IF opened
       THEN ipc' = NextPhase("new") /\ fault' = fault
       ELSE Raise("RuntimeError", "new")
    /\ UNCHANGED <<ready, startupCmds, sent, resps, ret, settings, prev, parsed,
                   call, ops, fwOut, wire, rxq>>
    /\ UNCHANGED <<stream, firmware, realtime, link, timer, config>>

\* self.dev.write("\r\n\r\n"); time.sleep(1.0)
Wake(script) ==
    /\ ipc = "wake"
    /\ wire' = Append(wire, [t |-> "raw", v |-> WAKE])
    /\ Received(script)
    /\ resps' = <<>>
    /\ ipc' = "wakeGather"
    /\ UNCHANGED <<ready, startupCmds, sent, ret, settings, prev, parsed, fault,
                   call, ops>>
    /\ UNCHANGED <<stream, firmware, realtime, link, timer, config>>

\* gatherResponses: waitForResponse returned a line, resps.append(r)
GatherLine ==
    /\ ipc \in {"wakeGather", "resetGather", "settingsGather"}
    /\ InWaiting > 0
    /\ resps' = Append(resps, Head(rxq))
    /\ rxq' = Tail(rxq)
    /\ UNCHANGED <<ipc, ready, startupCmds, sent, ret, settings, prev, parsed,
                   fault, call, ops, fwOut, wire>>
    /\ UNCHANGED <<stream, firmware, realtime, link, timer, config>>

\* resp = self.gatherResponses(1.0) returns: the noise is discarded
WakeGathered ==
    /\ ipc = "wakeGather"
    /\ InWaiting = 0
    /\ ret' = Returned(resps)
    /\ ipc' = NextPhase("wake")
    /\ UNCHANGED <<ready, startupCmds, sent, resps, settings, prev, parsed, fault,
                   call, ops, fwOut, wire, rxq>>
    /\ UNCHANGED <<stream, firmware, realtime, link, timer, config>>

\* resetGrbl: write(RT_RESET_GRBL); flush(); time.sleep(1.0)
Reset(script) ==
    /\ ipc = "reset"
    /\ wire' = WriteRealtime(wire, RT_RESET_GRBL)
    /\ Received(script)
    /\ resps' = <<>>
    /\ ipc' = "resetGather"
    /\ UNCHANGED <<ready, startupCmds, sent, ret, settings, prev, parsed, fault,
                   call, ops>>
    /\ UNCHANGED <<stream, firmware, realtime, link, timer, config>>

\* resp = self.resetGrbl() returns the list gathered; if resp is None: raise
ResetGathered ==
    /\ ipc = "resetGather"
    /\ InWaiting = 0
    /\ ret' = Returned(resps)
    /\ IF ret'.isNone
       THEN Raise("RuntimeError", "reset")
       ELSE ipc' = NextPhase("reset") /\ fault' = fault
    /\ UNCHANGED <<ready, startupCmds, sent, resps, settings, prev, parsed, call,
                   ops, fwOut, wire, rxq>>
    /\ UNCHANGED <<stream, firmware, realtime, link, timer, config>>

\* sendDollarCmd(cmd) up to the delay of sendLine; None for an unknown command
SendDollarCmd(cmd, script, waiting, returned) ==
    IF ValidDollarCmd(cmd)
    THEN /\ wire' = Append(wire, [t |-> "cmd", v |-> SendLineRawBytes(<<"$", cmd>>)])
         /\ Received(script)
         /\ ipc' = waiting
         /\ ret' = ret
    ELSE /\ ret' = ReturnNone
         /\ ipc' = returned
         /\ UNCHANGED <<wire, fwOut, rxq>>

\* resp = self.killAlarm(); if it returned None at once: raise
KillAlarm(script) ==
    /\ ipc = "killAlarm"
    /\ SendDollarCmd(DLR_KILL_ALARM, script, "killResp", "failed")
    /\ fault' = IF ipc' = "failed"
                THEN [exc |-> "RuntimeError", at |-> "killAlarm"] ELSE fault
    /\ UNCHANGED <<ready, startupCmds, sent, resps, settings, prev, parsed, call,
                   ops>>
    /\ UNCHANGED <<stream, firmware, realtime, link, timer, config>>

\* killAlarm returns what getResponse returned; if resp is None: raise
KillResp ==
    /\ ipc = "killResp"
    /\ ret' = GetResponseValue
    /\ rxq' = IF InWaiting > 0 THEN Tail(rxq) ELSE rxq
    /\ IF ret'.isNone
       THEN Raise("RuntimeError", "killAlarm")
       ELSE ipc' = NextPhase("killAlarm") /\ fault' = fault
    /\ UNCHANGED <<ready, startupCmds, sent, resps, settings, prev, parsed, call,
                   ops, fwOut, wire>>
    /\ UNCHANGED <<stream, firmware, realtime, link, timer, config>>

\* getSettings: resps = []; r = self.sendDollarCmd(DLR_VIEW_SETTINGS)
GetSettings(script) ==
    /\ ipc = "settings" \/ (ipc = "ready" /\ ops < MaxOps)
    /\ SendDollarCmd(DLR_VIEW_SETTINGS, script, "settingsResp", "settingsGather")
    /\ resps' = <<>>
    /\ IF ready
       THEN call' = [op |-> "getSettings", cmd |-> "none"] /\ ops' = ops + 1
       ELSE UNCHANGED <<call, ops>>
    /\ UNCHANGED <<ready, startupCmds, sent, settings, prev, parsed, fault>>
    /\ UNCHANGED <<stream, firmware, realtime, link, timer, config>>

\* r is what getResponse returned; if r: resps.append(r)
SettingsResp ==
    /\ ipc = "settingsResp"
    /\ resps' = IF Truthy(GetResponseValue) THEN GetResponseValue.lines ELSE <<>>
    /\ rxq' = IF InWaiting > 0 THEN Tail(rxq) ELSE rxq
    /\ ipc' = "settingsGather"
    /\ UNCHANGED <<ready, startupCmds, sent, ret, settings, prev, parsed, fault,
                   call, ops, fwOut, wire>>
    /\ UNCHANGED <<stream, firmware, realtime, link, timer, config>>

\* getSettings from gatherResponses(3.0) returning to its return, and the
\* test of its result by __init__
SettingsGathered ==
    /\ ipc = "settingsGather"
    /\ InWaiting = 0
    /\ \E kept \in {IF resps # <<>> /\ StartsWith(Texts(resps)[Len(resps)], TXT_OK)
                     THEN SubSeq(resps, 1, Len(resps) - 1) ELSE resps} :
       \E r \in {ParseGrblSettings(Texts(kept))} :
       LET last == Len(resps)
           assigned == last > 0 /\ r.exc = "none"
           result == IF assigned /\ r.state = "dict" /\ DOMAIN r.map # {}
                     THEN Returned(kept) ELSE ReturnNone
       IN  /\ IF assigned
              THEN /\ settings' = Snapshot(settings, r)
                   /\ prev' = settings
                   /\ parsed' = kept
              ELSE UNCHANGED <<settings, prev, parsed>>
           /\ ret' = result
           /\ IF last > 0 /\ r.exc # "none"
              THEN Raise(r.exc, "getSettings")
              ELSE IF ready
              THEN ipc' = "ready" /\ fault' = fault
              ELSE IF result.isNone
              THEN Raise("RuntimeError", "getSettings")
              ELSE ipc' = NextPhase("settings") /\ fault' = fault
    /\ UNCHANGED <<ready, startupCmds, sent, resps, call, ops, fwOut, wire, rxq>>
    /\ UNCHANGED <<stream, firmware, realtime, link, timer, config>>

\* for line in startupCmds: sendLine(line, self.delay) up to its delay
Startup(script) ==
    /\ ipc = "startup"
    /\ sent < Len(startupCmds)
    /\ sent' = sent + 1
    /\ wire' = Append(wire, [t |-> "cmd", v |-> SendLineRawBytes(startupCmds[sent + 1])])
    /\ Received(script)
    /\ ipc' = "startupResp"
    /\ UNCHANGED <<ready, startupCmds, resps, ret, settings, prev, parsed, fault,
                   call, ops>>
    /\ UNCHANGED <<stream, firmware, realtime, link, timer, config>>

\* the startup loop left when a line got no ok
AfterStartup_Checked(r) ==
    IF r.isNone \/ r.lines[1].kind # "ok" THEN "failed" ELSE "startup"

\* the startup loop after a response: the next iteration, whatever it was
AfterStartup(r) == "startup"

\* resp = what getResponse returned; nothing is done with it
StartupResp ==
    /\ ipc = "startupResp"
    /\ ret' = GetResponseValue
    /\ rxq' = IF InWaiting > 0 THEN Tail(rxq) ELSE rxq
    /\ ipc' = AfterStartup(ret')
    /\ UNCHANGED <<ready, startupCmds, sent, resps, settings, prev, parsed, fault,
                   call, ops, fwOut, wire>>
    /\ UNCHANGED <<stream, firmware, realtime, link, timer, config>>

\* the for loop is exhausted: __init__ returns
Constructed ==
    /\ ipc = "startup"
    /\ sent = Len(startupCmds)
    /\ ready' = TRUE
    /\ ipc' = NextPhase("startup")
    /\ UNCHANGED <<startupCmds, sent, resps, ret, settings, prev, parsed, fault,
                   call, ops, fwOut, wire, rxq>>
    /\ UNCHANGED <<stream, firmware, realtime, link, timer, config>>

\* the application calls sendDollarCmd(cmd) on the constructed device
CallSendDollarCmd(cmd, script) ==
    /\ ipc = "ready"
    /\ ops < MaxOps
    /\ ops' = ops + 1
    /\ call' = [op |-> "sendDollarCmd", cmd |-> cmd]
    /\ SendDollarCmd(cmd, script, "dollarResp", "ready")
    /\ UNCHANGED <<ready, startupCmds, sent, resps, settings, prev, parsed, fault>>
    /\ UNCHANGED <<stream, firmware, realtime, link, timer, config>>

\* sendDollarCmd returns what getResponse returned
DollarResp ==
    /\ ipc = "dollarResp"
    /\ ret' = GetResponseValue
    /\ rxq' = IF InWaiting > 0 THEN Tail(rxq) ELSE rxq
    /\ ipc' = "ready"
    /\ UNCHANGED <<ready, startupCmds, sent, resps, settings, prev, parsed, fault,
                   call, ops, fwOut, wire>>
    /\ UNCHANGED <<stream, firmware, realtime, link, timer, config>>

\* the firmware writes the answer it owes, all its lines at once
FwEmit ==
    /\ fwOut # <<>>
    /\ rxq' = rxq \o Head(fwOut)
    /\ fwOut' = Tail(fwOut)
    /\ UNCHANGED <<ipc, ready, startupCmds, sent, resps, ret, settings, prev,
                   parsed, fault, call, ops, wire>>
    /\ UNCHANGED <<stream, firmware, realtime, link, timer, config>>

\* the firmware writes the first line of the answer it owes, the rest later
FwEmitLine ==
    /\ fwOut # <<>>
    /\ Len(Head(fwOut)) > 1
    /\ rxq' = Append(rxq, Head(Head(fwOut)))
    /\ fwOut' = <<Tail(Head(fwOut))>> \o Tail(fwOut)
    /\ UNCHANGED <<ipc, ready, startupCmds, sent, resps, ret, settings, prev,
                   parsed, fault, call, ops, wire>>
    /\ UNCHANGED <<stream, firmware, realtime, link, timer, config>>

NextInit ==
    \/ XCarveInit
    \/ \E opened \in BOOLEAN : Open(opened)
    \/ \E script \in BootScripts : Wake(script)
    \/ GatherLine
    \/ WakeGathered
    \/ \E script \in BootScripts : Reset(script)
    \/ ResetGathered
    \/ \E script \in AckScripts : KillAlarm(script)
    \/ KillResp
    \/ \E script \in IF ready THEN Requeried ELSE Dumps : GetSettings(script)
    \/ SettingsResp
    \/ SettingsGathered
    \/ \E script \in AckScripts : Startup(script)
    \/ StartupResp
    \/ Constructed
    \/ \E cmd \in DollarArgs, script \in AckScripts : CallSendDollarCmd(cmd, script)
    \/ DollarResp
    \/ FwEmit

SpecInit == InitSession /\ [][NextInit]_vars

(***************************************************************************)
(* The construction against a firmware that answers everything in time:    *)
(* two lines of noise after the wake bytes, ok to the reset and to $X, the *)
(* complete settings dump to $$, ok to each of two startup lines.          *)
(***************************************************************************)
Noise == <<Line("blank", 0), Line("banner", 0)>>

\* the firmware has written all it owes: the timeout of a gather is longer
\* than the pause between two lines of an answer
Quiet == fwOut = <<>>

\* a line has come by the end of the delay of sendLine
Answered == rxq # <<>>

InitScenario ==
    InitSession /\ startupCmds = SubSeq(StartupLines, 1, 2) /\ config = DefaultConfig

NextScenario ==
    \/ XCarveInit
    \/ Open(TRUE)
    \/ Wake(Noise)
    \/ GatherLine
    \/ Quiet /\ WakeGathered
    \/ Reset(<<OkLine>>)
    \/ Quiet /\ ResetGathered
    \/ KillAlarm(<<OkLine>>)
    \/ Answered /\ KillResp
    \/ ~ready /\ GetSettings(DumpComplete)
    \/ Answered /\ SettingsResp
    \/ Quiet /\ SettingsGathered
    \/ Startup(<<OkLine>>)
    \/ Answered /\ StartupResp
    \/ Constructed
    \/ FwEmit
    \/ FwEmitLine

\* the constructor and the firmware both take the steps they can take
SpecScenario == InitScenario /\ [][NextScenario]_vars /\ WF_vars(NextScenario)

(***************************************************************************)
(* SerialDevice.gatherResponses, byte by byte: the firmware writes each     *)
(* line in one burst or in two, readline() returns what has come when its   *)
(* timeout ends, and the alarm of waitForResponse ends the call.            *)
(* Here rxq holds bytes, and fwOut, resps and ret hold texts.               *)
(***************************************************************************)
\* the lines the firmware may write during the call
BurstKinds == {"ok", "blank", "status"}

\* what the firmware has to write: at most MaxBurst lines, none begun
Bursts ==
    UNION {[1..n -> {[text |-> RespText(k), begun |-> FALSE] : k \in BurstKinds}] :
           n \in 0..MaxBurst}

\* str.endswith("\n")
EndsLine(s) == s # <<>> /\ s[Len(s)] = "\n"

\* self.dev.readline() on the bytes waiting: up to the first "\n" and with
\* it, or, when the serial timeout ends before a "\n" has come, all of them
Readline(bytes) ==
    LET ends == {k \in DOMAIN bytes : bytes[k] = "\n"}
    IN  IF ends = {} THEN bytes ELSE SubSeq(bytes, 1, SetMin(ends))

\* the complete lines in a stream of bytes, each with its "\n"
RECURSIVE SplitLines(_)
SplitLines(bytes) ==
    IF ~EndsLine(Readline(bytes)) THEN <<>>
    ELSE <<Readline(bytes)>>
         \o SplitLines(SubSeq(bytes, Len(Readline(bytes)) + 1, Len(bytes)))

\* out.strip() of each
Stripped(lines) == [k \in DOMAIN lines |-> Strip(lines[k])]

InitLink ==
    /\ fwOut \in Bursts
    /\ rxq = <<>>
    /\ lpc = "idle"
    /\ out = <<>>
    /\ taken = <<>>
    /\ alarms = <<>>
    /\ silent = 0
    /\ config = DefaultConfig
    /\ resps = <<>>
    /\ ret = ReturnNone
    /\ ipc = "ready"
    /\ ready = TRUE
    /\ startupCmds = <<>>
    /\ sent = 0
    /\ settings = ShortSettings
    /\ prev = NoSettings
    /\ parsed = <<>>
    /\ fault = NoFault
    /\ call = NoCall
    /\ ops = 0
    /\ wire = <<>>
    /\ gcodes = <<>>
    /\ pc = "idle"
    /\ i = 0
    /\ lineLengths = <<>>
    /\ lineOwner = <<>>
    /\ responses = <<>>
    /\ retired = <<>>
    /\ logged = 0
    /\ fwRx = <<>>
    /\ fwStatus = 0
    /\ infoSent = 0
    /\ rtpc = "idle"
    /\ rtCount = 0
    /\ rtResp = <<>>
    /\ rtAt = "none"

\* the firmware writes the next n bytes it owes; a line is written in one
\* burst or in two
LinkEmit(n) ==
    /\ fwOut # <<>>
    /\ n \in 1..Len(Head(fwOut).text)
    /\ Head(fwOut).begun => n = Len(Head(fwOut).text)
    /\ rxq' = rxq \o SubSeq(Head(fwOut).text, 1, n)
    /\ fwOut' = IF n = Len(Head(fwOut).text) THEN Tail(fwOut)
                ELSE <<[text |-> SubSeq(Head(fwOut).text, n + 1, Len(Head(fwOut).text)),
                        begun |-> TRUE]>> \o Tail(fwOut)
    /\ UNCHANGED <<ipc, ready, startupCmds, sent, resps, ret, settings, prev, parsed,
                   fault, call, ops, wire>>
    /\ UNCHANGED <<stream, firmware, realtime, link, timer, config>>

\* gatherResponses(timeout) is called: resps = [], and waitForResponse calls
\* getResponse, which sets out = ""
GatherResponses ==
    /\ lpc = "idle"
    /\ lpc' = "loop"
    /\ resps' = <<>>
    /\ out' = <<>>
    /\ taken' = <<>>
    /\ UNCHANGED <<ipc, ready, startupCmds, sent, ret, settings, prev, parsed,
                   fault, call, ops, fwOut, wire, rxq>>
    /\ UNCHANGED <<stream, firmware, realtime, timer, config>>

\* getResponse finds bytes waiting and reads: a read that ends with "\n" ends
\* the loop and out.strip() is returned, waitForResponse returns it,
\* gatherResponses appends it and waits again; any other read is accumulated
\* and the loop goes on after its sleep
ReadBytes ==
    /\ lpc = "loop"
    /\ InWaiting > 0
    /\ \E resp \in {Readline(rxq)} :
          /\ rxq' = SubSeq(rxq, Len(resp) + 1, Len(rxq))
          /\ taken' = taken \o resp
          /\ IF EndsLine(resp)
             THEN /\ ret' = Returned(<<Strip(out \o resp)>>)
                  /\ resps' = Append(resps, Strip(out \o resp))
                  /\ out' = <<>>
             ELSE /\ out' = out \o resp
                  /\ UNCHANGED <<ret, resps>>
    /\ lpc' = "loop"
    /\ UNCHANGED <<ipc, ready, startupCmds, sent, settings, prev, parsed,
                   fault, call, ops, fwOut, wire>>
    /\ UNCHANGED <<stream, firmware, realtime, timer, config>>

\* getResponse finds no byte waiting after it has accumulated some: the loop
\* ends, out is not "" and out.strip() is returned, appended by
\* gatherResponses, which waits again
ReturnAccumulated ==
    /\ lpc = "loop"
    /\ InWaiting = 0
    /\ out # <<>>
    /\ ret' = Returned(<<Strip(out)>>)
    /\ resps' = Append(resps, Strip(out))
    /\ out' = <<>>
    /\ UNCHANGED <<lpc, taken>>
    /\ UNCHANGED <<ipc, ready, startupCmds, sent, settings, prev, parsed,
                   fault, call, ops, fwOut, wire, rxq>>
    /\ UNCHANGED <<stream, firmware, realtime, timer, config>>

\* getResponse returns None and the alarm has been put in the queue:
\* waitForResponse returns None and gatherResponses returns resps. While the
\* queue is empty waitForResponse calls getResponse again, which changes
\* nothing.
TimedOut ==
    /\ lpc = "loop"
    /\ InWaiting = 0
    /\ out = <<>>
    /\ lpc' = "done"
    /\ ret' = Returned(resps)
    /\ UNCHANGED <<out, taken>>
    /\ UNCHANGED <<ipc, ready, startupCmds, sent, resps, settings, prev, parsed,
                   fault, call, ops, fwOut, wire, rxq>>
    /\ UNCHANGED <<stream, firmware, realtime, timer, config>>

NextLink ==
    \/ \E n \in 1..Len(RespText("status")) : LinkEmit(n)
    \/ GatherResponses
    \/ ReadBytes
    \/ ReturnAccumulated
    \/ TimedOut

SpecLink == InitLink /\ [][NextLink]_vars

(***************************************************************************)
(* SerialDevice.sendLineRaw on the command lines a caller may give it.     *)
(***************************************************************************)
\* the characters the lines are made of
LineChars == {"G", " ", "\n"}

\* the command lines of at most MaxText characters
CommandLines == UNION {[1..n -> LineChars] : n \in 0..MaxText}

InitSendLine ==
    /\ call \in {[op |-> "sendLineRaw", cmd |-> line] : line \in CommandLines}
    /\ wire = <<>>
    /\ ops = 0
    /\ fwOut = <<>>
    /\ rxq = <<>>
    /\ lpc = "idle"
    /\ out = <<>>
    /\ taken = <<>>
    /\ alarms = <<>>
    /\ silent = 0
    /\ config = DefaultConfig
    /\ resps = <<>>
    /\ ret = ReturnNone
    /\ ipc = "ready"
    /\ ready = TRUE
    /\ startupCmds = <<>>
    /\ sent = 0
    /\ settings = ShortSettings
    /\ prev = NoSettings
    /\ parsed = <<>>
    /\ fault = NoFault
    /\ gcodes = <<>>
    /\ pc = "idle"
    /\ i = 0
    /\ lineLengths = <<>>
    /\ lineOwner = <<>>
    /\ responses = <<>>
    /\ retired = <<>>
    /\ logged = 0
    /\ fwRx = <<>>
    /\ fwStatus = 0
    /\ infoSent = 0
    /\ rtpc = "idle"
    /\ rtCount = 0
    /\ rtResp = <<>>
    /\ rtAt = "none"

\* sendLineRaw(line): self.dev.write(line.strip() + "\n")
CallSendLineRaw ==
    /\ call.op = "sendLineRaw"
    /\ ops = 0
    /\ ops' = 1
    /\ wire' = Append(wire, [t |-> "cmd", v |-> SendLineRawBytes(call.cmd)])
    /\ UNCHANGED <<ipc, ready, startupCmds, sent, resps, ret, settings, prev, parsed,
                   fault, call, fwOut, rxq>>
    /\ UNCHANGED <<stream, firmware, realtime, link, timer, config>>

NextSendLine == CallSendLineRaw

SpecSendLine == InitSendLine /\ [][NextSendLine]_vars

(***************************************************************************)
(* SerialDevice.gatherResponses and the Alarm threads of waitForResponse,  *)
(* with time: the lines come whole, time passes in units, and every        *)
(* waitForResponse starts a thread that sleeps for the timeout and then    *)
(* puts None in the queue made for that wait.                              *)
(***************************************************************************)
\* the lines the firmware may write during the call
TimedScripts ==
    UNION {[1..n -> {Line("ok", 0), Line("status", 0)}] : n \in 0..MaxBurst}

\* gatherResponses(timeout)
GatherCalls == {[op |-> "gatherResponses", cmd |-> t] : t \in 1..MaxTimeout}

\* the wait that goes on without a new Alarm: the first one stays the current
StartAlarm_Kept(as, timeout) ==
    IF as = <<>> THEN <<[left |-> timeout, put |-> FALSE]>> ELSE as

\* q = Queue(); alarm = Alarm(q, timeout); alarm.start(): one more thread,
\* with its own queue, the threads started before running on
StartAlarm(as, timeout) == Append(as, [left |-> timeout, put |-> FALSE])

\* not q.empty(), were one queue shared by the Alarms of all the waits
QueueNotEmpty_Shared(as) == \E k \in DOMAIN as : as[k].put

\* not q.empty(): q is the queue of the current wait, which its Alarm alone
\* puts into
QueueNotEmpty(as) == as # <<>> /\ as[Len(as)].put

\* a wait that returns None when its alarm has fired, whatever was read
TimedOutWait_Fired(r, fired) == fired

\* waitForResponse returns None: r is None and the queue is not empty
TimedOutWait(r, fired) == r.isNone /\ fired

InitAlarm ==
    /\ fwOut \in TimedScripts
    /\ call \in GatherCalls
    /\ rxq = <<>>
    /\ lpc = "idle"
    /\ out = <<>>
    /\ taken = <<>>
    /\ alarms = <<>>
    /\ silent = 0
    /\ config = DefaultConfig
    /\ resps = <<>>
    /\ ret = ReturnNone
    /\ ipc = "ready"
    /\ ready = TRUE
    /\ startupCmds = <<>>
    /\ sent = 0
    /\ settings = ShortSettings
    /\ prev = NoSettings
    /\ parsed = <<>>
    /\ fault = NoFault
    /\ ops = 0
    /\ wire = <<>>
    /\ gcodes = <<>>
    /\ pc = "idle"
    /\ i = 0
    /\ lineLengths = <<>>
    /\ lineOwner = <<>>
    /\ responses = <<>>
    /\ retired = <<>>
    /\ logged = 0
    /\ fwRx = <<>>
    /\ fwStatus = 0
    /\ infoSent = 0
    /\ rtpc = "idle"
    /\ rtCount = 0
    /\ rtResp = <<>>
    /\ rtAt = "none"

\* the firmware writes its next line
LineArrives ==
    /\ fwOut # <<>>
    /\ rxq' = Append(rxq, Head(fwOut))
    /\ fwOut' = Tail(fwOut)
    /\ UNCHANGED <<ipc, ready, startupCmds, sent, resps, ret, settings, prev, parsed,
                   fault, call, ops, wire>>
    /\ UNCHANGED <<stream, firmware, realtime, link, timer, config>>

\* gatherResponses(timeout) is called: resps = [], and the first
\* waitForResponse starts its Alarm
CallGather ==
    /\ lpc = "idle"
    /\ lpc' = "poll"
    /\ resps' = <<>>
    /\ taken' = <<>>
    /\ alarms' = StartAlarm(alarms, call.cmd)
    /\ silent' = 0
    /\ UNCHANGED <<ipc, ready, startupCmds, sent, ret, settings, prev, parsed,
                   fault, call, ops, fwOut, wire, rxq, out>>
    /\ UNCHANGED <<stream, firmware, realtime, config>>

\* r = self.getResponse()
Poll ==
    /\ lpc = "poll"
    /\ ret' = GetResponseValue
    /\ rxq' = IF InWaiting > 0 THEN Tail(rxq) ELSE rxq
    /\ taken' = taken \o GetResponseValue.lines
    /\ lpc' = "test"
    /\ UNCHANGED <<ipc, ready, startupCmds, sent, resps, settings, prev, parsed,
                   fault, call, ops, fwOut, wire, out>>
    /\ UNCHANGED <<stream, firmware, realtime, timer, config>>

\* while r is None: with the queue not empty waitForResponse returns None
\* and gatherResponses returns resps, with the queue empty getResponse is
\* called again; a line ends the loop, is returned and appended, and
\* gatherResponses waits again
Test ==
    /\ lpc = "test"
    /\ IF TimedOutWait(ret, QueueNotEmpty(alarms))
       THEN /\ lpc' = "done"
            /\ ret' = Returned(resps)
            /\ UNCHANGED <<resps, alarms, silent>>
       ELSE IF ret.isNone
       THEN /\ lpc' = "poll"
            /\ UNCHANGED <<ret, resps, alarms, silent>>
       ELSE /\ lpc' = "poll"
            /\ resps' = resps \o ret.lines
            /\ alarms' = StartAlarm(alarms, call.cmd)
            /\ silent' = 0
            /\ ret' = ret
    /\ UNCHANGED <<ipc, ready, startupCmds, sent, settings, prev, parsed,
                   fault, call, ops, fwOut, wire, rxq, out, taken>>
    /\ UNCHANGED <<stream, firmware, realtime, config>>

\* time.sleep(self.timeout) of every Alarm goes on by one unit of time. No
\* unit passes between a getResponse and the test of the queue that follows
\* it; units that pass after the last Alarm has woken change nothing.
Tick ==
    /\ lpc # "test"
    /\ \E k \in DOMAIN alarms : alarms[k].left > 0
    /\ alarms' = [k \in DOMAIN alarms |->
                      [left |-> IF alarms[k].left > 0 THEN alarms[k].left - 1 ELSE 0,
                       put |-> alarms[k].put]]
    /\ silent' = IF lpc = "poll" /\ rxq = <<>> THEN silent + 1 ELSE silent
    /\ UNCHANGED <<session, stream, firmware, realtime, link, rxq, wire, config>>

\* Alarm.run after its sleep: self.q.put(None)
AlarmPut(k) ==
    /\ k \in DOMAIN alarms
    /\ alarms[k].left = 0
    /\ ~alarms[k].put
    /\ alarms' = [alarms EXCEPT ![k].put = TRUE]
    /\ UNCHANGED <<session, stream, firmware, realtime, link, rxq, wire, silent, config>>

NextAlarm ==
    \/ LineArrives
    \/ CallGather
    \/ Poll
    \/ Test
    \/ Tick
    \/ \E k \in 1..(MaxBurst + 1) : AlarmPut(k)

SpecAlarm == InitAlarm /\ [][NextAlarm]_vars

(***************************************************************************)
(* Notions the claims are stated with.                                     *)
(***************************************************************************)
\* a terminal response line: one that begins with ok or with error
IsTerminalLine(resp) == StartsWith(resp, TXT_OK) \/ StartsWith(resp, TXT_ERROR)

\* the text of the line that a read in this state returns
ReadText == Strip(RespText(IF rxq # <<>> THEN Head(rxq).kind ELSE "timeout"))

\* this step takes a firmware's terminal response to a gcode line off the link
TerminalRead == rxq # <<>> /\ rxq' = Tail(rxq) /\ Head(rxq).kind \in Terminals

\* this step is one pass of the while loop of writeGcodes
DrainStep == pc = "while" /\ (logged' # logged \/ responses' # responses)

\* the lines whose response writeGcodes has read
ReadLines == {responses[j].for : j \in DOMAIN responses} \ {0}

\* the lines written to the link
SentLines == {wire[j].v : j \in {n \in DOMAIN wire : wire[n].t = "line"}}

\* no line other than a terminal response has retired an entry
NoFalseCredit == \A j \in DOMAIN retired : retired[j].kind \in Terminals

\* the byte length of line k of the program
LengthOf(k) == ByteLength(GcodeText(gcodes[k]))

RECURSIVE SumOver(_)
SumOver(S) ==
    IF S = {} THEN 0
    ELSE LET k == CHOOSE x \in S : TRUE IN LengthOf(k) + SumOver(S \ {k})

(***************************************************************************)
(* Flow accounting of writeGcodes                                          *)
(***************************************************************************)
\* C1: at the instant a gcode line is transmitted the tracked in-flight total
\* is below the capacity 128 and not negative; and while only acknowledgments
\* have retired entries, it counts the line being sent and every line sent whose
\* response has not been read, so that a second 64-byte line is not sent until
\* the response to the first has been read.
C1_InFlightBelowCapacity ==
    pc = "sleep" =>
        /\ Sum(lineLengths) >= 0
        /\ Sum(lineLengths) < GRBL_RX_BUFFER_SIZE
        /\ NoFalseCredit =>
              /\ (SentLines \ ReadLines) \subseteq {lineOwner[j] : j \in DOMAIN lineOwner}
              /\ SumOver(SentLines \ ReadLines) < GRBL_RX_BUFFER_SIZE

\* the second of two 64-byte lines has been sent after the wait for the first
\* line's response
C1_Witness ==
    /\ pc = "sleep"
    /\ gcodes = <<3, 3>>
    /\ i = 2
    /\ Len(retired) = 1
    /\ lineLengths = <<64>>

\* C2: retirement is first-in first-out over the transmitted lines: the first
\* terminal response received retires the entry of line 1, and every terminal
\* response retires the oldest line transmitted and not yet retired.
C2_FirstTerminalRetiresOldest ==
    [][TerminalRead =>
          LET outstanding == SentLines \ {retired[j].entry : j \in DOMAIN retired}
          IN  /\ Len(retired') = Len(retired) + 1
              /\ outstanding # {}
              /\ retired'[Len(retired')].entry = SetMin(outstanding)]_vars

\* C3: every terminal response read for a queued line, in the while loop or by
\* sendLine, retires exactly one outstanding entry.
C3_TerminalRetiresOne ==
    [][TerminalRead => Len(lineLengths') = Len(lineLengths) - 1]_vars

\* C4: a line read in the while loop that does not begin with ok or error is
\* recorded and retires nothing.
C4_NoFalseCredit ==
    [][(DrainStep /\ ~IsTerminalLine(ReadText)) =>
          (lineLengths' = lineLengths /\ logged' = logged + 1)]_vars

\* C5: every line transmitted is retired by a terminal response: none is still
\* outstanding when writeGcodes returns.
C5_AllRetiredAtReturn ==
    pc = "done" => lineLengths = <<>>

\* C6: writeGcodes terminates when the firmware acknowledges every line it
\* receives: once every line sent has been acknowledged and every response
\* read, the backpressure wait is over.
C6_WaitEnds ==
    (pc = "while" /\ infoSent = 0 /\ fwRx = <<>> /\ rxq = <<>>)
        => ~MustWait(lineLengths)

\* C7: the outcomes are one terminal response per line of the program, the
\* k-th being the firmware's response to line k.
C7_OneOutcomePerLine ==
    pc = "done" =>
        /\ Len(responses) = Len(gcodes)
        /\ \A k \in DOMAIN responses :
              responses[k].for = k /\ responses[k].kind \in Terminals

\* this step of writeGcodes reads an error response of the firmware
ErrorRead == rxq # <<>> /\ rxq' = Tail(rxq) /\ Head(rxq).kind = "error"

RtOnWire == {n \in DOMAIN wire : wire[n].t = "rt"}

\* this step issues a realtime command
RtIssue == rtCount' = rtCount + 1

\* this step is a step of the caller of the realtime commands
RtStep == rtpc' # rtpc \/ rtResp' # rtResp \/ rtCount' # rtCount

\* C9: a realtime command can be issued while writeGcodes waits in its
\* backpressure loop, and it is written to the link in the step that issues it,
\* behind no gcode line: writeGcodes has not moved and has written nothing.
C9_RealtimeImmediate ==
    /\ []((rtpc = "idle" /\ rtCount < MaxRt) =>
             \A c \in REALTIME_CMDS : ENABLED RtSend(c))
    /\ [](Cardinality(RtOnWire) = rtCount)
    /\ [][RtIssue =>
             /\ Len(wire') = Len(wire) + 1
             /\ wire'[Len(wire')].t = "rt"
             /\ SubSeq(wire', 1, Len(wire)) = wire
             /\ UNCHANGED <<pc, i>>]_vars

\* a feed hold was issued while writeGcodes waited with the second of two
\* 64-byte lines, and is on the wire ahead of that line
C9_Witness ==
    /\ rtAt = "waiting"
    /\ gcodes = <<3, 3>>
    /\ wire = <<[t |-> "line", v |-> 1], [t |-> "rt", v |-> RT_FEED_HOLD],
                [t |-> "line", v |-> 2]>>

\* C10: realtime commands take no part in the flow accounting: no step of a
\* realtime command changes the list of outstanding lengths, and the response
\* to a realtime command retires no entry.
C10_RealtimeNotAccounted ==
    /\ [][RtStep => UNCHANGED <<lineLengths, lineOwner, retired>>]_vars
    /\ [](\A j \in DOMAIN retired : retired[j].kind # "status")
    /\ [][(DrainStep /\ rxq # <<>> /\ Head(rxq).kind = "status") =>
             lineLengths' = lineLengths]_vars

\* the status report asked for during the wait was read by the while loop of
\* writeGcodes, with an entry outstanding
C10_Witness ==
    /\ rtAt = "waiting"
    /\ rtCount = 1
    /\ rtpc = "idle"
    /\ rtResp = <<>>
    /\ fwStatus = 0
    /\ \E n \in DOMAIN wire : wire[n] = [t |-> "rt", v |-> RT_CURRENT_STATUS]
    /\ \A j \in DOMAIN rxq : rxq[j].kind # "status"
    /\ \A j \in DOMAIN responses : responses[j].kind # "status"
    /\ logged >= 1
    /\ lineLengths # <<>>

(***************************************************************************)
(* The realtime bytes, the initialization of the session, the settings.    *)
(***************************************************************************)
\* C11: every realtime command, the soft reset included, is written to the
\* link as exactly one byte, with no line terminator after it.
C11_OneRawByte ==
    \A n \in DOMAIN wire :
        wire[n].t = "rt" => Len(wire[n].v) = 1 /\ ~IsSpace(wire[n].v[1])

\* what __init__ writes for a device configured with the startup lines cfg
InitWrites(cfg) ==
    <<[t |-> "raw", v |-> <<"\r", "\n", "\r", "\n">>],
      [t |-> "rt", v |-> RT_RESET_GRBL],
      [t |-> "cmd", v |-> <<"$", "X", "\n">>],
      [t |-> "cmd", v |-> <<"$", "$", "\n">>]>>
        \o [k \in DOMAIN cfg |-> [t |-> "cmd", v |-> cfg[k] \o <<"\n">>]]

IsPrefix(s, t) == Len(s) <= Len(t) /\ SubSeq(t, 1, Len(s)) = s

\* __init__ or a call is collecting the response to what it wrote
Collecting ==
    ipc \in {"wakeGather", "resetGather", "killResp", "settingsResp",
             "settingsGather", "startupResp", "dollarResp"}

\* C12: the initialization is strictly sequential: what is written is, in
\* this order, the wake bytes, the reset, $X, $$ and the startup lines as
\* configured; nothing is written while the response to the previous step is
\* being collected; and the device is constructed only when all is written.
C12_InitSequential ==
    /\ [](ops = 0 => IsPrefix(wire, InitWrites(startupCmds)))
    /\ [](ready => IsPrefix(InitWrites(startupCmds), wire))
    /\ [][Collecting => wire' = wire]_vars
    /\ [][wire' # wire => Len(wire') = Len(wire) + 1]_vars

\* a device with two startup lines is constructed, all six writes made
C12_Witness ==
    /\ ready
    /\ ops = 0
    /\ Len(startupCmds) = 2
    /\ wire = InitWrites(<<<<"$", "H">>, <<"G", "2", "1">>>>)

\* this step is the return of the gatherResponses of resetGrbl to __init__
ResetReturns == ipc = "resetGather" /\ ipc' # "resetGather"

\* C13: when the firmware sent no line in response to the reset (the gathered
\* result is empty), the construction fails and nothing more is written.
C13_NoResetAck ==
    /\ [][(ResetReturns /\ resps = <<>>) => ipc' = "failed"]_vars
    /\ [](ipc = "killAlarm" => ret.lines # <<>>)

\* this step is the return of killAlarm to __init__
KillAlarmReturns == ipc = "killResp" /\ ipc' # "killResp"

RowsOf(lines) == {k \in DOMAIN lines : lines[k].kind \in RowKinds}
IdsOf(lines) == {lines[k].for : k \in RowsOf(lines)}

\* a row for an id the table does not have, or with a value that is no number
Malformed(m) == m.kind \in RowKinds /\ (m.for \notin SettingIds \/ m.kind = "rowText")

\* this step is the return of getSettings, to __init__ or to the application
SettingsReturns == ipc = "settingsGather" /\ ipc' # "settingsGather"

\* C15: when the settings query of the initialization got no response, a
\* malformed row or not every setting of the table, the construction fails
\* and no startup line is written.
C15_SettingsQueryFailed ==
    /\ [][(/\ SettingsReturns
           /\ ~ready
           /\ \/ resps = <<>>
              \/ \E k \in DOMAIN resps : Malformed(resps[k])
              \/ IdsOf(resps) # SettingIds) => ipc' = "failed"]_vars
    /\ [](ipc \in {"startup", "startupResp"} => DOMAIN settings.map = SettingIds)

\* C16: the snapshot that getSettings exposes has exactly the ids of the
\* settings table: a response that lacks an id gives no snapshot.
C16_SnapshotComplete ==
    [][(SettingsReturns /\ ~ret'.isNone) =>
          settings'.state = "dict" /\ DOMAIN settings'.map = SettingIds]_vars

\* the rows of the lines last parsed: the pattern's groups of each line
Groups(k) == PatternMatch(Strip(LineText(parsed[k])))
RowId(k) == DigitsValue(Groups(k).num)

\* the lines of the current snapshot that the pattern matched
StoredRows ==
    {k \in DOMAIN parsed :
        settings.state = "dict" /\ Groups(k).matched /\ RowId(k) \in DOMAIN settings.map}

\* C17: the value stored for a row $<id>=<v> <text> is v in the kind the table
\* declares for the id: for a bool 0 is false and 1 is true, for an int the
\* decimal token is that integer, for a float the decimal token is that number
\* ($100=314.961 gives 314.961).
C17_DecodeDeclaredKind ==
    \A k \in StoredRows :
        LET kind == GS_TYPE(RowId(k))
            token == Groups(k).token
            val == settings.map[RowId(k)]
        IN  /\ val.k = kind
            /\ (kind = "bool" /\ token = <<"0">>) => val.n = 0
            /\ (kind = "bool" /\ token = <<"1">>) => val.n = 1
            /\ (kind = "int" /\ AllDigits(token)) =>
                   val.n = DigitsValue(token) /\ val.e = 0
            /\ (kind = "float" /\ token = <<"3", "1", "4", ".", "9", "6", "1">>) =>
                   val.n = 314961 /\ val.e = 3

\* the token is a value of the kind: a bool is written 0 or 1
Parsable(kind, token) ==
    CASE kind = "bool" -> token \in {<<"0">>, <<"1">>}
      [] kind = "int" -> ToInt(token) # ValueError
      [] kind = "float" -> ToFloat(token) # ValueError

\* C18: a row whose id the table does not have, or whose value is no value of
\* the kind declared for the id, makes the decoding fail: no snapshot is made
\* of lines that hold such a row.
C18_MalformedRejected ==
    settings.state = "dict" =>
        \A k \in DOMAIN parsed :
            Groups(k).matched =>
                /\ RowId(k) \in SettingIds
                /\ Parsable(GS_TYPE(RowId(k)), Groups(k).token)

\* the dict holds exactly the rows among the lines, each id with the value of
\* its last row
Fresh(map, lines) ==
    LET groups == [k \in DOMAIN lines |-> PatternMatch(Strip(LineText(lines[k])))]
        rows == {k \in DOMAIN lines : groups[k].matched}
        id == [k \in rows |-> DigitsValue(groups[k].num)]
        last(n) == CHOOSE k \in rows : id[k] = n /\ \A j \in rows : id[j] = n => j <= k
    IN  /\ DOMAIN map = {id[k] : k \in rows}
        /\ \A n \in DOMAIN map :
               map[n] = TypeCast(GS_TYPE(n), groups[last(n)].token)

\* C19: the snapshot of a successful getSettings holds exactly the rows of
\* the response to that query, nothing of the snapshot before it, and
\* self.settings changes in the one step in which getSettings assigns it.
C19_SnapshotFresh ==
    [][settings' # settings =>
          SettingsReturns /\ prev' = settings /\ Fresh(settings'.map, parsed')]_vars

\* a second query on a device that had every setting returned three rows: the
\* snapshot holds these three and nothing of the thirty-three it had
C19_Witness ==
    /\ ipc = "ready"
    /\ call.op = "getSettings"
    /\ ~ret.isNone
    /\ DOMAIN prev.map = SettingIds
    /\ DOMAIN settings.map = {0, 4, 100}
    /\ settings.map[100] = [k |-> "float", n |-> 2505, e |-> 1]
    /\ prev.map[100] = [k |-> "float", n |-> 314961, e |-> 3]

\* this step is a call of sendDollarCmd with a command that is none
UnknownDollarCall ==
    /\ ops' = ops + 1
    /\ call'.op = "sendDollarCmd"
    /\ call'.cmd \notin {"$", "#", "G", "I", "N", "C", "X", "H"}

\* C20: sendDollarCmd with a command that is no dollar command fails at once:
\* it returns None in the step of the call, nothing is written to the link,
\* nothing is read from it, and the flow accounting is as it was.
C20_UnknownCommand ==
    [][UnknownDollarCall =>
          /\ ret'.isNone
          /\ ipc' = "ready"
          /\ UNCHANGED <<wire, rxq, fwOut, lineLengths, responses, settings>>]_vars

\* sendDollarCmd("Z") has returned None on a constructed device, the writes
\* of the construction being all there is on the wire
C20_Witness ==
    /\ call = [op |-> "sendDollarCmd", cmd |-> "Z"]
    /\ ipc = "ready"
    /\ ret.isNone
    /\ wire = InitWrites(startupCmds)

(***************************************************************************)
(* Dollar commands, realtime commands, failures of the construction.       *)
(***************************************************************************)
\* this step is the return of a sendDollarCmd that wrote its command
DollarReturns == ipc \in {"killResp", "dollarResp"} /\ ipc' \notin {"killResp", "dollarResp"}

\* a line received in answer to the last write is waiting to be read
LeftOver(received) == \E k \in DOMAIN received : received[k].to = Len(wire)

\* C21: when a dollar command returns, its response has been consumed up to
\* the terminal line: no line of the response is left in the receive stream
\* for a later command to take as its own response.
C21_DollarConsumed ==
    [][DollarReturns => ~LeftOver(rxq')]_vars

\* this step is the return of getCurrentStatus, cycleStart or feedHold
RtReturns == rtpc = "sleep" /\ rtpc' = "idle"

\* C22: a status query, cycle start or feed hold writes its byte and returns
\* the next response line when one has come, None (here no line) when the
\* firmware is silent; silence raises nothing: the caller is back at rest and
\* writeGcodes is where it was.
C22_SilentRealtime ==
    /\ [][(RtIssue /\ rtpc' = "sleep") =>
             /\ Len(wire') = Len(wire) + 1
             /\ wire'[Len(wire')].t = "rt"
             /\ wire'[Len(wire')].v \in {<<"?">>, <<"~">>, <<"!">>}]_vars
    /\ [][RtReturns =>
             /\ rxq = <<>> => rtResp' = <<>> /\ rxq' = <<>>
             /\ rxq # <<>> => rtResp' = <<Head(rxq)>> /\ rxq' = Tail(rxq)
             /\ UNCHANGED <<stream, wire>>]_vars

\* feed hold returned None to a silent firmware, and writeGcodes went on to
\* its end after it
C22_Witness ==
    /\ rtCount = 1
    /\ rtpc = "idle"
    /\ rtResp = <<>>
    /\ pc = "done"
    /\ Len(wire) = 2
    /\ wire[1] = [t |-> "rt", v |-> <<"!">>]
    /\ wire[2].t = "line"

\* __init__ was left by an exception
Faulted == fault # NoFault /\ ~ready

\* C24: a failed construction is final: the device never becomes ready, and
\* nothing more is written to the link on its behalf.
C24_FaultTerminal ==
    /\ [](Faulted => ipc = "failed")
    /\ [][Faulted => UNCHANGED <<wire, ready, fault, ipc, settings>>]_vars

\* the construction failed on a settings row of an unknown id
C24_Witness ==
    /\ Faulted
    /\ fault = [exc |-> "KeyError", at |-> "getSettings"]
    /\ Len(wire) = 4
    /\ fwOut = <<>>

\* this step is the return of the sendLine of a startup line
StartupReturns == ipc = "startupResp" /\ ipc' # "startupResp"

\* C25: an error response, or none, to a startup line does not end the
\* construction: the loop goes on with the next line, no exception is raised
\* in it, and the lines are on the wire in the configured order when the
\* device is ready.
C25_StartupBestEffort ==
    /\ [][StartupReturns => ipc' = "startup" /\ fault' = NoFault]_vars
    /\ [](ipc \in {"startup", "startupResp"} => fault = NoFault /\ sent <= Len(startupCmds))
    /\ [][(ipc = "startup" /\ ipc' # ipc) =>
             IF sent < Len(startupCmds)
             THEN ipc' = "startupResp" /\ wire' = SubSeq(InitWrites(startupCmds), 1, sent + 5)
             ELSE ipc' = "ready" /\ ready']_vars
    /\ []((ready /\ ops = 0) => wire = InitWrites(startupCmds) /\ fault = NoFault)

\* both startup lines were written and the device is ready, the second line
\* having been answered with an error
C25_Witness ==
    /\ ready
    /\ ops = 0
    /\ Len(startupCmds) = 2
    /\ Len(wire) = 6
    /\ ~ret.isNone
    /\ ret.lines[1].kind = "error"
    /\ ret.lines[1].to = 6

\* C27: when the serial port cannot be opened the construction fails before
\* anything is written, and the opening is not tried again: the failure is
\* final, and nothing is ever written or read for that device.
C27_LinkUnavailable ==
    /\ [][(ipc = "new" /\ ipc' = "failed") =>
             fault' = [exc |-> "RuntimeError", at |-> "new"] /\ wire = <<>>]_vars
    /\ [](fault.at = "new" =>
             /\ ipc = "failed"
             /\ ~ready
             /\ wire = <<>>
             /\ rxq = <<>>
             /\ fwOut = <<>>
             /\ settings = NoSettings)

\* the port could not be opened
C27_Witness ==
    /\ ipc = "failed"
    /\ fault = [exc |-> "RuntimeError", at |-> "new"]
    /\ wire = <<>>

(***************************************************************************)
(* The admission threshold.                                                *)
(***************************************************************************)
\* this step of the while loop waits for a response: none has come
WaitStep == DrainStep /\ rxq = <<>>

\* C29: a line is held back only when it would bring the total in flight to
\* 128 or more: with a total of 127 or less, the line counted, writeGcodes
\* does not wait for a response before it writes the line.
C29_ThresholdExact ==
    [][WaitStep => Sum(lineLengths) >= GRBL_RX_BUFFER_SIZE]_vars

(***************************************************************************)
(* The construction from end to end.                                       *)
(***************************************************************************)
\* the device is constructed with a snapshot of every setting of the table
ReadyComplete ==
    /\ ready
    /\ ipc = "ready"
    /\ fault = NoFault
    /\ settings.state = "dict"
    /\ DOMAIN settings.map = SettingIds

\* C26: against a firmware that writes two lines of noise after the wake
\* bytes, answers ok to the reset and to $X, answers $$ with the complete
\* dump and each of the two startup lines with ok, each answer in time, the
\* construction ends with the device ready and a snapshot of every setting.
C26_InitCompletes == <>ReadyComplete

\* the device is ready: all six writes made, all answers read
C26_Witness ==
    /\ ReadyComplete
    /\ wire = InitWrites(<<<<"$", "H">>, <<"G", "2", "1">>>>)
    /\ rxq = <<>>
    /\ fwOut = <<>>
    /\ ret.lines = <<[kind |-> "ok", for |-> 0, to |-> 6]>>

\* this step is a return of getResponse with a value, which gatherResponses
\* appends to its list
GetResponseReturns == lpc = "loop" /\ Len(resps') = Len(resps) + 1

\* the last of the complete lines in a stream of bytes
LastLine(bytes) == SplitLines(bytes)[Len(SplitLines(bytes))]

\* C30: the link read never returns a partial line: what getResponse returns
\* is a line whose "\n" has been read, whole; bytes without their "\n" are
\* kept until it comes.
C30_NoPartialLine ==
    [][GetResponseReturns =>
          /\ EndsLine(taken')
          /\ resps'[Len(resps')] = Strip(LastLine(taken'))]_vars

\* this step is the return of gatherResponses
GatherReturns == lpc = "loop" /\ lpc' = "done"

\* C23: gatherResponses returns, the first time a wait for a line times out,
\* exactly the lines the link delivered during the call, in the order of
\* their arrival: none dropped, duplicated or reordered.
C23_GatherExact ==
    [][GatherReturns => ret'.lines = Stripped(SplitLines(taken'))]_vars

\* the steps by which gatherResponses returns to its caller
GatherReturn == NextLink /\ lpc' = "done"

\* C28: a gather can be ended early by its caller, by a deadline or a
\* cancellation: whenever gatherResponses is running, a step that returns from
\* it is possible.
C28_GatherAbortable == lpc = "loop" => ENABLED GatherReturn

(***************************************************************************)
(* The bytes of a gcode line, the settings rows, the accounting against    *)
(* the firmware's buffer.                                                  *)
(***************************************************************************)
\* this step is the lineLengths.append of the for loop of writeGcodes
Charge == pc = "for" /\ i' = i + 1

\* what sendLine writes for line k of the program: writeGcodes strips the
\* line and sendLineRaw strips it again and appends "\n"
BytesWritten(k) == SendLineRawBytes(Strip(GcodeText(gcodes[k])))

\* C32: the length charged to the accounting for a gcode line is the number
\* of bytes written to the link for it, the stripped text and one "\n",
\* also for a line with whitespace before or after its text.
C32_ChargedIsWritten ==
    [][Charge =>
          /\ lineLengths' = Append(lineLengths, Len(BytesWritten(i')))
          /\ BytesWritten(i') = Strip(GcodeText(gcodes[i'])) \o <<"\n">>]_vars

\* a line that has a space before its text and a newline after it has been
\* charged its 8 bytes and written
C32_Witness ==
    /\ pc = "sleep"
    /\ GcodeText(gcodes[i]) = <<" ", "G", "1", " ", "X", "1", "0", "0", "\n">>
    /\ lineLengths # <<>>
    /\ lineLengths[Len(lineLengths)] = 8
    /\ wire[Len(wire)] = [t |-> "line", v |-> i]

\* bytes that are one line for the firmware: no "\n" but the last byte
OneLine(bytes) == EndsLine(bytes) /\ \A k \in 1..(Len(bytes) - 1) : bytes[k] # "\n"

\* C33: every command line written to the link is text with no newline in
\* it followed by exactly one "\n": one line for the firmware, which answers
\* it with one terminal response.
C33_OneLinePerWrite ==
    \A n \in DOMAIN wire : wire[n].t = "cmd" => OneLine(wire[n].v)

\* C34: what a settings row decodes to depends on its $<id>=<value> alone:
\* whatever text follows the value, and also when none does, the row is
\* decoded and its id is in the snapshot.
C34_TrailingIgnored ==
    [][settings' # settings => IdsOf(parsed') \subseteq DOMAIN settings'.map]_vars

\* the lines written that the firmware has not answered
Unacknowledged == {fwRx[j] : j \in DOMAIN fwRx}

\* C35: the accounting never underestimates what the firmware holds: the
\* bytes written and not yet acknowledged by the firmware are at most the
\* tracked total, and so fewer than the 128 of its receive buffer, whatever the
\* firmware writes, informational lines included.
C35_NeverUnderestimates ==
    /\ SumOver(Unacknowledged) <= Sum(lineLengths)
    /\ SumOver(Unacknowledged) < GRBL_RX_BUFFER_SIZE

\* this step is a del lineLengths[0]
RetireStep == Len(retired') = Len(retired) + 1

\* C36: a retirement is applied only to a line that has been written: the
\* entry of the line that waits to be admitted is never removed by a response
\* that comes before the line is sent, and no retirement is tried on an empty
\* list (no IndexError), whatever the firmware writes.
C36_RetireOnlySent ==
    /\ [][RetireStep => retired'[Len(retired')].entry \in SentLines]_vars
    /\ [](pc # "raised")

\* a snapshot that holds settings
GoodSnapshot(s) == s.state = "dict" /\ DOMAIN s.map # {}

\* C37: a getSettings that fails (no response, no settings in it, or settings
\* that cannot be decoded) leaves the snapshot stored before it as it was: a
\* good snapshot is never replaced by an empty one or by None.
C37_FailedQueryKeepsSnapshot ==
    [][(SettingsReturns /\ (ret'.isNone \/ fault' # fault) /\ GoodSnapshot(settings))
          => settings' = settings]_vars

(***************************************************************************)
(* XCarve                                                                  *)
(***************************************************************************)
\* C40: an XCarve made from a configuration whose "cnc" has no "device"
\* fails with an error before a serial port is opened and before a byte is
\* written: the construction never gets to SerialDevice.__init__.
C40_NoDeviceFailsFirst ==
    /\ []("device" \notin DOMAIN config.cnc =>
             ipc \in {"config", "failed"} /\ wire = <<>> /\ ~ready)
    /\ [][("device" \notin DOMAIN config.cnc /\ ipc = "config") =>
             ipc' = "failed" /\ fault' = [exc |-> "RuntimeError", at |-> "config"]]_vars

\* the construction from a configuration without a device has failed
C40_Witness ==
    /\ config = NoDeviceConfig
    /\ ipc = "failed"
    /\ fault = [exc |-> "RuntimeError", at |-> "config"]
    /\ wire = <<>>

(***************************************************************************)
(* The timeouts of waitForResponse                                         *)
(***************************************************************************)
\* this step is the return of the timed gatherResponses
TimedGatherReturns == lpc = "test" /\ lpc' = "done"

\* the Alarm of the current wait
CurrentAlarm == alarms[Len(alarms)]

\* C31: the timer of gatherResponses starts again with every line received:
\* the call returns only when, since the last line was returned, the whole
\* timeout has passed without a line having come, however long the call has
\* lasted; a line that has come while the timer ran is collected, and the
\* call goes on.
C31_TimerRestarts ==
    /\ [][TimedGatherReturns => silent >= call.cmd /\ CurrentAlarm.left = 0]_vars
    /\ [][(lpc = "test" /\ lpc' # "test" /\ ~ret.isNone) =>
             /\ lpc' = "poll"
             /\ resps' = resps \o ret.lines
             /\ alarms'[Len(alarms')] = [left |-> call.cmd, put |-> FALSE]]_vars

\* two lines have been collected one unit of time apart, the timeout being
\* two units, and the call goes on in its third wait though the Alarm of the
\* first has fired
C31_Witness ==
    /\ lpc = "poll"
    /\ call.cmd = 2
    /\ Len(resps) = 2
    /\ Len(alarms) = 3
    /\ alarms[1].put
    /\ alarms[2].left = 1
    /\ alarms[3].left = 2

\* C38: the timeouts of the waits are independent: the Alarm of an earlier
\* wait, which runs on after that wait has returned a line, never ends a later
\* wait: a wait returns None only when its own Alarm has slept its whole
\* timeout and put None in its queue.
C38_OwnTimeoutOnly ==
    [][TimedGatherReturns =>
          /\ CurrentAlarm.left = 0
          /\ CurrentAlarm.put
          /\ ret.isNone]_vars

\* the Alarm of the first wait has fired during the second wait, whose own
\* Alarm still sleeps, and the second wait goes on
C38_Witness ==
    /\ Len(alarms) = 2
    /\ alarms[1].put
    /\ alarms[2].left > 0
    /\ lpc = "poll"
    /\ ret.isNone
    /\ Len(resps) = 1

\* the line that getResponse has returned and waitForResponse has not yet
\* returned or dropped
InHand == IF lpc = "test" THEN ret.lines ELSE <<>>

\* C39: no line is lost to the timeout: in every order of the steps of the
\* Alarm threads, the firmware and the polling loop, a line taken from the
\* receive buffer is returned by the wait that took it and is in the list
\* gatherResponses returns; the wait that times out has taken no line, and a
\* line that came too late is still in the receive buffer.
C39_NoLineLost ==
    /\ [](taken = resps \o InHand)
    /\ [](lpc = "done" => ret.lines = taken)
    /\ [][TimedGatherReturns => ret.isNone /\ rxq' = rxq]_vars

\* the Alarm of the current wait has fired and getResponse has just returned
\* a line: the line is in hand when the timeout is tested
C39_Witness ==
    /\ lpc = "test"
    /\ ~ret.isNone
    /\ CurrentAlarm.put

====
